---- MODULE Spec2Model ----
(***************************************************************************)
(* Assignment3/chess.py: State (a wrapper of a chess.Board), its static    *)
(* evaluation, the fixed-depth minimax with alpha-beta pruning, and the    *)
(* play_game loop (White = human, Black = the search).                     *)
(*                                                                         *)
(* The rules engine (the `chess` package) is outside the repository.  It   *)
(* is modelled as a finite table of board configurations: for each         *)
(* configuration and side to move the legal moves in enumeration order,    *)
(* the pieces, the four centre squares and the attackers of each king.     *)
(* A board carries what chess.Board carries and the program reads: the     *)
(* configuration, the turn, the halfmove clock, the fullmove number, the   *)
(* positions since the last irreversible move (what the repetition rules   *)
(* replay from the move stack), the stack's length and its top.            *)
(*                                                                         *)
(* Scores are the program's floats counted in units of 0.05 (Unit = 20     *)
(* per 1.0), so that every term of evaluate() is an integer.               *)
(*                                                                         *)
(* game is the engine's table of pieces, drawn once; current_state,        *)
(* eval_score and best_move are play_game's locals; searched and call_log  *)
(* record the last root call of minimax and the calls it made;             *)
(* other_state is a second State, played beside current_state where two    *)
(* boards of one position are compared.                                    *)
(***************************************************************************)
EXTENDS Integers, Sequences, FiniteSets, TLC

VARIABLES game, current_state, pc, eval_score, best_move, searched, call_log,
          other_state

vars == <<game, current_state, pc, eval_score, best_move, searched, call_log, other_state>>

\* ------------------------------------------------------------- bounds

\* Moves pushed on a board before the model stops extending a game.
MaxPly == 9

\* Moves pushed on a board before the model stops starting searches from it.
SearchPly == 5

\* The largest maxDepth a search is started with.
MaxSearchDepth == 3

\* ---------------------------------------------------------- constants

WHITE == TRUE
BLACK == FALSE

\* 1.0 of the program's score, in units of 0.05.
Unit == 20

\* float('inf'): larger than any score evaluate() returns.
Inf == 100000000

\* maxDepth = 3 in play_game.
play_maxDepth == 3

NoMove == [uci |-> "none", to |-> "none", zeroing |-> FALSE]

Max(a, b) == IF a >= b THEN a ELSE b
Min(a, b) == IF a <= b THEN a ELSE b

\* ------------------------------------------------- the rules engine

Mv(u, t, z) == [uci |-> u, to |-> t, zeroing |-> z]

Pc(c, t) == [color |-> c, ptype |-> t, dark |-> FALSE]

\* Configurations whose pieces the initial table draws from PieceAlts.
VarCfgs == {"k0", "q2", "q4"}

PieceAlts ==
    << <<Pc(WHITE, "K"), Pc(BLACK, "K"), Pc(WHITE, "Q")>>,
       <<Pc(WHITE, "K"), Pc(BLACK, "K"), Pc(BLACK, "R"), Pc(BLACK, "P")>>,
       <<Pc(WHITE, "K"), Pc(BLACK, "K"), Pc(WHITE, "N")>> >>

Games == [VarCfgs -> 1..Len(PieceAlts)]

\* board.legal_moves of configuration c with side t to move, in the
\* engine's enumeration order.
legal_moves_of(c, t) ==
    CASE c = "s00" /\ t = WHITE -> <<Mv("g1f3", "s10", FALSE), Mv("e2e4", "p1", TRUE)>>
      [] c = "s00" /\ t = BLACK -> <<Mv("g8f6", "s01", FALSE)>>
      [] c = "s10" /\ t = BLACK -> <<Mv("g8f6", "s11", FALSE), Mv("e7e5", "m0", TRUE)>>
      [] c = "s10" /\ t = WHITE -> <<Mv("f3g1", "s00", FALSE), Mv("f3e5", "s31", FALSE)>>
      [] c = "s11" /\ t = WHITE -> <<Mv("f3g1", "s01", FALSE), Mv("f3e5", "s31", FALSE),
                                     Mv("d2d4", "k0", TRUE)>>
      [] c = "s11" /\ t = BLACK -> <<Mv("f6g8", "s10", FALSE)>>
      [] c = "s01" /\ t = BLACK -> <<Mv("f6g8", "s00", FALSE), Mv("d7d5", "q2", TRUE)>>
      [] c = "s01" /\ t = WHITE -> <<Mv("g1f3", "s11", FALSE)>>
      [] c = "s31" /\ t = BLACK -> <<Mv("f6e4", "s33", FALSE)>>
      [] c = "s33" /\ t = WHITE -> <<Mv("e5f3", "s13", FALSE)>>
      [] c = "s33" /\ t = BLACK -> <<Mv("e4f6", "s31", FALSE), Mv("e4f2", "q4", TRUE)>>
      [] c = "s13" /\ t = BLACK -> <<Mv("e4f6", "s11", FALSE)>>
      [] c = "p1" /\ t = BLACK -> <<Mv("d7d5", "m0", TRUE), Mv("g8f6", "q2", FALSE),
                                    Mv("e7e5", "q4", TRUE)>>
      [] c = "p1" /\ t = WHITE -> <<Mv("e4e5", "q3", TRUE)>>
      [] c = "m0" /\ t = WHITE -> <<Mv("d1h5", "f2", FALSE), Mv("d1f7", "wm", TRUE),
                                    Mv("e4d5", "k0", TRUE)>>
      [] c = "m0" /\ t = BLACK -> <<Mv("d5e4", "q2", TRUE), Mv("d5d4", "q4", TRUE)>>
      [] c = "f2" /\ t = BLACK -> <<Mv("g7g6", "f3a", TRUE), Mv("e8e7", "f3b", FALSE)>>
      [] c = "f3a" /\ t = WHITE -> <<Mv("h5g6", "st", TRUE), Mv("h5f7", "wm", TRUE)>>
      [] c = "f3b" /\ t = WHITE -> <<Mv("h5f7", "wm", TRUE), Mv("h5e5", "ins", TRUE)>>
      [] c = "f3b" /\ t = BLACK -> <<Mv("e7e8", "f2", FALSE)>>
      [] c = "k0" /\ t = BLACK -> <<Mv("d5e4", "q2", TRUE), Mv("d8h4", "bm", FALSE),
                                    Mv("c8g4", "q4", FALSE)>>
      [] c = "k0" /\ t = WHITE -> <<Mv("d4d5", "q3", TRUE), Mv("c1g5", "f2", FALSE),
                                    Mv("g1f3", "p1", FALSE)>>
      [] c = "q2" /\ t = WHITE -> <<Mv("b1c3", "q3", FALSE), Mv("d1d5", "ins", TRUE),
                                    Mv("f1b5", "st", FALSE)>>
      [] c = "q3" /\ t = BLACK -> <<Mv("d8d5", "ins", TRUE), Mv("c8f5", "q4", FALSE),
                                    Mv("d8h4", "bm", FALSE)>>
      [] c = "q3" /\ t = WHITE -> <<Mv("c3d5", "q2", TRUE)>>
      [] c = "q4" /\ t = WHITE -> <<Mv("g1h1", "st", FALSE), Mv("d1d8", "wm", TRUE)>>
      [] c = "q4" /\ t = BLACK -> <<Mv("f5e4", "q3", FALSE), Mv("f5c2", "q2", TRUE)>>
      [] c = "ins" -> <<Mv("e1d2", "ins2", FALSE)>>
      [] c = "ins2" -> <<Mv("d2e1", "ins", FALSE)>>
      [] c = "wm" /\ t = WHITE -> <<Mv("f7e8", "ins", TRUE)>>
      [] c = "bm" /\ t = BLACK -> <<Mv("h4e1", "ins", TRUE)>>
      [] OTHER -> <<>>

\* board.piece_map() of configuration c under the table g.  As in chess, a
\* configuration in which a side is checkmated has mating material.
piece_map_of(g, c) ==
    CASE c \in VarCfgs -> PieceAlts[g[c]]
      [] c \in {"ins", "ins2"} -> <<Pc(WHITE, "K"), Pc(BLACK, "K")>>
      [] c = "st" -> <<Pc(WHITE, "K"), Pc(BLACK, "K"), Pc(WHITE, "P"), Pc(WHITE, "B")>>
      [] c = "wm" -> <<Pc(WHITE, "K"), Pc(BLACK, "K"), Pc(WHITE, "Q"), Pc(WHITE, "R")>>
      [] c = "bm" -> <<Pc(WHITE, "K"), Pc(BLACK, "K"), Pc(BLACK, "Q"), Pc(BLACK, "B")>>
      [] c \in {"f3a", "f3b"} -> <<Pc(WHITE, "K"), Pc(BLACK, "K"), Pc(WHITE, "Q"),
                                   Pc(WHITE, "N"), Pc(BLACK, "R"), Pc(BLACK, "P")>>
      [] c = "m0" -> <<Pc(WHITE, "K"), Pc(BLACK, "K"), Pc(WHITE, "Q"), Pc(WHITE, "P"),
                       Pc(BLACK, "Q"), Pc(BLACK, "P"), Pc(BLACK, "P")>>
      [] c = "p1" -> <<Pc(WHITE, "K"), Pc(BLACK, "K"), Pc(WHITE, "Q"), Pc(WHITE, "P"),
                       Pc(BLACK, "Q"), Pc(BLACK, "N")>>
      [] OTHER -> <<Pc(WHITE, "K"), Pc(BLACK, "K"), Pc(WHITE, "Q"), Pc(WHITE, "N"),
                    Pc(BLACK, "Q"), Pc(BLACK, "N")>>

\* board.piece_at(sq) for sq = D4, E4, D5, E5: "w", "b" or "-" (no piece).
centre_of(c) ==
    CASE c \in {"p1", "m0", "f2"} -> <<"-", "w", "b", "-">>
      [] c \in {"k0", "q3"} -> <<"w", "-", "b", "-">>
      [] c \in {"s31", "s13"} -> <<"-", "-", "-", "w">>
      [] c = "s33" -> <<"-", "b", "-", "w">>
      [] c = "q2" -> <<"-", "-", "b", "b">>
      [] OTHER -> <<"-", "-", "-", "-">>

\* Len(board.attackers(BLACK, board.king(WHITE))) and the converse.
attackers_of(c) ==
    CASE c = "wm" -> [wk |-> 0, bk |-> 1]
      [] c = "bm" -> [wk |-> 2, bk |-> 0]
      [] c = "f2" -> [wk |-> 0, bk |-> 1]
      [] c = "q3" -> [wk |-> 1, bk |-> 0]
      [] OTHER -> [wk |-> 0, bk |-> 0]

\* ------------------------------------------------------- chess.Board

\* chess.Board(): the initial position, nothing on the move stack, for
\* clock = 0.  A larger clock stands for a game in which the last `clock`
\* halfmoves were reversible and brought no position of the table: its
\* earlier positions never count in a repetition scan.
NewBoard(clock) ==
    [cfg |-> "s00", turn |-> WHITE, halfmove_clock |-> clock,
     fullmove_number |-> 1 + (clock \div 2), hist |-> <<>>, ply |-> 0,
     last |-> NoMove]

transposition_key(b) == <<b.cfg, b.turn>>

legal_moves(b) == legal_moves_of(b.cfg, b.turn)

\* Board.push on a copy: the clock counts up and is reset by a zeroing
\* move, the fullmove number counts Black's moves, the turn flips; the
\* positions a repetition scan can pop back to end at an irreversible move.
Push(b, m) ==
    [cfg |-> m.to,
     turn |-> ~b.turn,
     halfmove_clock |-> IF m.zeroing THEN 0 ELSE b.halfmove_clock + 1,
     fullmove_number |-> IF b.turn = BLACK THEN b.fullmove_number + 1
                         ELSE b.fullmove_number,
     hist |-> IF m.zeroing THEN <<>> ELSE Append(b.hist, transposition_key(b)),
     ply |-> b.ply + 1,
     last |-> m]

\* board.fen(): placement, turn (and rights), halfmove clock, fullmove number.
fen(b) == <<b.cfg, b.turn, b.halfmove_clock, b.fullmove_number>>

Count(seq, x) == Cardinality({i \in DOMAIN seq : seq[i] = x})

is_check(b) ==
    IF b.turn = WHITE THEN attackers_of(b.cfg).wk > 0 ELSE attackers_of(b.cfg).bk > 0

is_checkmate(b) == is_check(b) /\ legal_moves(b) = <<>>

is_stalemate(b) == ~is_check(b) /\ legal_moves(b) = <<>>

Has(pieces, color, types) ==
    \E i \in DOMAIN pieces : pieces[i].color = color /\ pieces[i].ptype \in types

has_insufficient_material(b, color) ==
    LET ps == piece_map_of(game, b.cfg)
        own == Cardinality({i \in DOMAIN ps : ps[i].color = color})
        bishops == {i \in DOMAIN ps : ps[i].ptype = "B"}
    IN  IF Has(ps, color, {"P", "R", "Q"}) THEN FALSE
        ELSE IF Has(ps, color, {"N"})
             THEN own <= 2 /\ ~Has(ps, ~color, {"P", "N", "B", "R"})
        ELSE IF Has(ps, color, {"B"})
             THEN /\ \/ \A i \in bishops : ps[i].dark
                     \/ \A i \in bishops : ~ps[i].dark
                  /\ ~Has(ps, WHITE, {"P", "N"}) /\ ~Has(ps, BLACK, {"P", "N"})
        ELSE TRUE

is_insufficient_material(b) ==
    has_insufficient_material(b, WHITE) /\ has_insufficient_material(b, BLACK)

is_halfmoves(b, n) == b.halfmove_clock >= n /\ legal_moves(b) # <<>>

is_fifty_moves(b) == is_halfmoves(b, 100)

is_seventyfive_moves(b) == is_halfmoves(b, 150)

can_claim_fifty_moves(b) ==
    \/ is_fifty_moves(b)
    \/ /\ b.halfmove_clock >= 99
       /\ \E i \in DOMAIN legal_moves(b) :
             /\ ~legal_moves(b)[i].zeroing
             /\ is_fifty_moves(Push(b, legal_moves(b)[i]))

\* The position's occurrences since the last irreversible move.
Occurrences(b) == 1 + Count(b.hist, transposition_key(b))

can_claim_threefold_repetition(b) ==
    \/ Occurrences(b) >= 3
    \/ \E i \in DOMAIN legal_moves(b) :
          LET n == Push(b, legal_moves(b)[i])
          IN  Count(n.hist, transposition_key(n)) >= 2

is_fivefold_repetition(b) == Occurrences(b) >= 5

can_claim_draw(b) == can_claim_fifty_moves(b) \/ can_claim_threefold_repetition(b)

\* is_game_over that forgets the side to move may have no legal move.
is_game_over_NoStalemate(b) ==
    \/ is_checkmate(b)
    \/ is_insufficient_material(b)
    \/ is_seventyfive_moves(b)
    \/ is_fivefold_repetition(b)

\* Board.is_game_over(), claim_draw left at its default False.
is_game_over(b) ==
    \/ is_checkmate(b)
    \/ is_insufficient_material(b)
    \/ legal_moves(b) = <<>>
    \/ is_seventyfive_moves(b)
    \/ is_fivefold_repetition(b)

\* ------------------------------------------------------------- State

\* isTerminal as is_game_over(claim_draw=True): a claimable draw ends the game.
isTerminal_ClaimDraw(state) == is_game_over(state) \/ can_claim_draw(state)

isTerminal(state) == is_game_over(state)

moveGen(state) ==
    [i \in DOMAIN legal_moves(state) |-> Push(state, legal_moves(state)[i])]

piece_values(ptype) ==
    CASE ptype = "P" -> 1 * Unit
      [] ptype = "N" -> 4 * Unit
      [] ptype = "B" -> 4 * Unit
      [] ptype = "R" -> 6 * Unit
      [] ptype = "Q" -> 10 * Unit
      [] ptype = "K" -> 200 * Unit
      [] OTHER -> 0

RECURSIVE Material(_, _)
Material(ps, i) ==
    IF i > Len(ps) THEN 0
    ELSE (IF ps[i].color = WHITE THEN piece_values(ps[i].ptype)
          ELSE 0 - piece_values(ps[i].ptype)) + Material(ps, i + 1)

RECURSIVE Centre(_, _)
Centre(sq, i) ==
    IF i > Len(sq) THEN 0
    ELSE (CASE sq[i] = "w" -> 4 [] sq[i] = "b" -> -4 [] OTHER -> 0) + Centre(sq, i + 1)

Mobility(state) ==
    Len(legal_moves_of(state.cfg, WHITE)) - Len(legal_moves_of(state.cfg, BLACK))

KingSafety(state) ==
    LET ps == piece_map_of(game, state.cfg)
    IN  (IF Has(ps, WHITE, {"K"}) THEN 0 - 10 * attackers_of(state.cfg).wk ELSE 0)
        + (IF Has(ps, BLACK, {"K"}) THEN 10 * attackers_of(state.cfg).bk ELSE 0)

Heuristic(state) ==
    Material(piece_map_of(game, state.cfg), 1) + Centre(centre_of(state.cfg), 1)
    + Mobility(state) + KingSafety(state)

\* evaluate with the two checkmate scores exchanged.
evaluate_SignsSwapped(state) ==
    IF is_checkmate(state)
    THEN IF state.turn = WHITE THEN 10000 * Unit ELSE 0 - 10000 * Unit
    ELSE IF is_stalemate(state) \/ is_insufficient_material(state) \/ can_claim_draw(state)
    THEN 0
    ELSE Heuristic(state)

evaluate(state) ==
    IF is_checkmate(state)
    THEN IF state.turn = WHITE THEN 0 - 10000 * Unit ELSE 10000 * Unit
    ELSE IF is_stalemate(state) \/ is_insufficient_material(state) \/ can_claim_draw(state)
    THEN 0
    ELSE Heuristic(state)

\* ----------------------------------------------------------- minimax

\* One call of minimax, as the search records it: the state, its depth and
\* the maximizingPlayer flag it was called with.
Call(state, depth, maximizingPlayer) ==
    [state |-> state, depth |-> depth, maximizingPlayer |-> maximizingPlayer]

\* NewAlpha without the max: alpha = eval_score.
NewAlpha_NoMax(alpha, child_score) == child_score

\* alpha = max(alpha, eval_score)
NewAlpha(alpha, child_score) == Max(alpha, child_score)

\* beta = min(beta, eval_score)
NewBeta(beta, child_score) == Min(beta, child_score)

\* Cutoff with the comparison turned round.
Cutoff_Flipped(alpha, beta) == alpha <= beta

\* if alpha >= beta: break
Cutoff(alpha, beta) == alpha >= beta

\* ImprovesMax with >= for >: a later equal child replaces the earlier.
ImprovesMax_OrEqual(child_score, maxEval) == child_score >= maxEval

\* if eval_score > maxEval
ImprovesMax(child_score, maxEval) == child_score > maxEval

\* ImprovesMin with <= for <.
ImprovesMin_OrEqual(child_score, minEval) == child_score <= minEval

\* if eval_score < minEval
ImprovesMin(child_score, minEval) == child_score < minEval

RECURSIVE minimax(_, _, _, _, _, _)
RECURSIVE MaxLoop(_, _, _, _, _, _, _, _, _)
RECURSIVE MinLoop(_, _, _, _, _, _, _, _, _)

\* The MAX node's loop over children[i..]: maxEval and best_move so far,
\* alpha as updated by the children before i; calls are the calls made.
MaxLoop(children, i, depth, alpha, beta, maxDepth, maxEval, move, calls) ==
    IF i > Len(children)
    THEN [score |-> maxEval, move |-> move, calls |-> calls]
    ELSE LET r == minimax(children[i], depth + 1, alpha, beta, FALSE, maxDepth)
             better == ImprovesMax(r.score, maxEval)
             maxEval2 == IF better THEN r.score ELSE maxEval
             move2 == IF better THEN children[i].last ELSE move
             alpha2 == NewAlpha(alpha, r.score)
             calls2 == calls \o r.calls
         IN  IF Cutoff(alpha2, beta)
             THEN [score |-> maxEval2, move |-> move2, calls |-> calls2]
             ELSE MaxLoop(children, i + 1, depth, alpha2, beta, maxDepth,
                          maxEval2, move2, calls2)

\* The MIN node's loop over children[i..].
MinLoop(children, i, depth, alpha, beta, maxDepth, minEval, move, calls) ==
    IF i > Len(children)
    THEN [score |-> minEval, move |-> move, calls |-> calls]
    ELSE LET r == minimax(children[i], depth + 1, alpha, beta, TRUE, maxDepth)
             better == ImprovesMin(r.score, minEval)
             minEval2 == IF better THEN r.score ELSE minEval
             move2 == IF better THEN children[i].last ELSE move
             beta2 == NewBeta(beta, r.score)
             calls2 == calls \o r.calls
         IN  IF Cutoff(alpha, beta2)
             THEN [score |-> minEval2, move |-> move2, calls |-> calls2]
             ELSE MinLoop(children, i + 1, depth, alpha, beta2, maxDepth,
                          minEval2, move2, calls2)

\* minimax(state, depth, alpha, beta, maximizingPlayer, maxDepth): the
\* (score, move) pair it returns, and the calls it made, in order.
minimax(state, depth, alpha, beta, maximizingPlayer, maxDepth) ==
    IF isTerminal(state) \/ depth = maxDepth
    THEN [score |-> evaluate(state), move |-> NoMove,
          calls |-> <<Call(state, depth, maximizingPlayer)>>]
    ELSE IF maximizingPlayer
    THEN MaxLoop(moveGen(state), 1, depth, alpha, beta, maxDepth, 0 - Inf, NoMove,
                 <<Call(state, depth, maximizingPlayer)>>)
    ELSE MinLoop(moveGen(state), 1, depth, alpha, beta, maxDepth, Inf, NoMove,
                 <<Call(state, depth, maximizingPlayer)>>)

\* --------------------------------------------------------- play_game

\* play_game calling minimax as if the AI were White.
AI_maximizingPlayer_White == TRUE

\* maximizingPlayer of play_game's call: False, the AI is Black.
AI_maximizingPlayer == FALSE

\* The test of best_move turned into one that never holds.
Truthy_Never(move) == FALSE

\* "if best_move:": a chess.Move is false only when it is the null move.
Truthy(move) == move # NoMove

\* What the last step's call of minimax was given, if the step made one.
NoSearch == [root |-> NewBoard(0), maximizingPlayer |-> FALSE, maxDepth |-> -1]

Searched(state, maximizingPlayer, depthLimit) ==
    [root |-> state, maximizingPlayer |-> maximizingPlayer, maxDepth |-> depthLimit]

Init ==
    /\ game \in Games
    /\ current_state = NewBoard(0)
    /\ pc = "loop"
    /\ eval_score = 0
    /\ best_move = NoMove
    /\ searched = NoSearch
    /\ call_log = <<>>
    /\ other_state = NewBoard(0)

\* The human's turn: a legal move in UCI is pushed on a copy of the board
\* (any other input leaves the state as it is and the loop asks again).
HumanMove ==
    /\ pc = "loop"
    /\ ~isTerminal(current_state)
    /\ current_state.turn = WHITE
    /\ current_state.ply < MaxPly
    /\ \E i \in DOMAIN legal_moves(current_state) :
          current_state' = Push(current_state, legal_moves(current_state)[i])
    /\ searched' = NoSearch
    /\ UNCHANGED <<game, pc, eval_score, best_move, call_log, other_state>>

\* The AI's turn: minimax for Black from the current state, then the move
\* it returned, or the first legal move when it returned none.
AIMove ==
    /\ pc = "loop"
    /\ ~isTerminal(current_state)
    /\ current_state.turn = BLACK
    /\ current_state.ply < MaxPly
    /\ LET r == minimax(current_state, 0, 0 - Inf, Inf, AI_maximizingPlayer, play_maxDepth)
       IN  /\ eval_score' = r.score
           /\ best_move' = r.move
           /\ searched' = Searched(current_state, AI_maximizingPlayer, play_maxDepth)
           /\ call_log' = r.calls
           /\ IF Truthy(r.move)
              THEN /\ current_state' = Push(current_state, r.move)
                   /\ pc' = pc
              ELSE IF legal_moves(current_state) # <<>>
              THEN /\ current_state' = Push(current_state, legal_moves(current_state)[1])
                   /\ pc' = pc
              ELSE /\ current_state' = current_state
                   /\ pc' = "over"
    /\ UNCHANGED <<game, other_state>>

\* 'quit' typed, or the display's quit event: the loop is left.
Quit ==
    /\ pc = "loop"
    /\ ~isTerminal(current_state)
    /\ pc' = "over"
    /\ UNCHANGED <<game, current_state, eval_score, best_move, searched, call_log, other_state>>

\* while not current_state.isTerminal(): the loop ends on a terminal state.
GameOver ==
    /\ pc = "loop"
    /\ isTerminal(current_state)
    /\ pc' = "over"
    /\ UNCHANGED <<game, current_state, eval_score, best_move, searched, call_log, other_state>>

Next == HumanMove \/ AIMove \/ Quit \/ GameOver

Spec == Init /\ [][Next]_vars

\* ------------------------------------------- minimax on every state

\* Halfmove clocks of the boards a search is started from: a new game, and
\* games two plies short of the fifty-move and seventy-five-move rules.
StartClocks == {0, 98, 148}

SearchInit ==
    /\ game \in Games
    /\ current_state \in {NewBoard(c) : c \in StartClocks}
    /\ pc = "search"
    /\ eval_score = 0
    /\ best_move = NoMove
    /\ searched = NoSearch
    /\ call_log = <<>>
    /\ other_state = NewBoard(0)

\* Either side plays any legal move: State(new_board) of a pushed copy.
Advance ==
    /\ pc = "search"
    /\ ~isTerminal(current_state)
    /\ current_state.ply < SearchPly
    /\ \E i \in DOMAIN legal_moves(current_state) :
          current_state' = Push(current_state, legal_moves(current_state)[i])
    /\ searched' = NoSearch
    /\ UNCHANGED <<game, pc, eval_score, best_move, call_log, other_state>>

\* minimax(state, 0, -inf, +inf, maximizingPlayer, maxDepth) on the state.
Search ==
    /\ pc = "search"
    /\ searched = NoSearch
    /\ call_log = <<>>
    /\ other_state = NewBoard(0)
    /\ \E mp \in BOOLEAN, md \in 0..MaxSearchDepth :
          LET r == minimax(current_state, 0, 0 - Inf, Inf, mp, md)
          IN  /\ eval_score' = r.score
              /\ best_move' = r.move
              /\ searched' = Searched(current_state, mp, md)
              /\ call_log' = r.calls
    /\ UNCHANGED <<game, current_state, pc, other_state>>

SearchNext == Advance \/ Search

SearchSpec == SearchInit /\ [][SearchNext]_vars

\* ------------------------------------------------- reference searches

RECURSIVE FullMinimax(_, _, _, _)
RECURSIVE FullLoop(_, _, _, _, _, _)

\* Minimax of the same tree with no window and no break: every child of
\* every node above the depth limit is searched.
FullLoop(children, i, depth, maximizingPlayer, depthLimit, best) ==
    IF i > Len(children) THEN best
    ELSE LET v == FullMinimax(children[i], depth + 1, ~maximizingPlayer, depthLimit)
         IN  FullLoop(children, i + 1, depth, maximizingPlayer, depthLimit,
                      IF maximizingPlayer THEN Max(best, v) ELSE Min(best, v))

FullMinimax(state, depth, maximizingPlayer, depthLimit) ==
    IF isTerminal(state) \/ depth = depthLimit THEN evaluate(state)
    ELSE FullLoop(moveGen(state), 1, depth, maximizingPlayer, depthLimit,
                  IF maximizingPlayer THEN 0 - Inf ELSE Inf)

RECURSIVE Textbook(_, _, _, _, _, _)
RECURSIVE TextbookLoop(_, _, _, _, _, _, _, _, _, _)

\* Alpha-beta as the textbooks give it: the node's bound is updated from
\* the running best (maxEval at a MAX node, minEval at a MIN node).
TextbookLoop(children, i, depth, alpha, beta, maximizingPlayer, depthLimit, best, move, made) ==
    IF i > Len(children)
    THEN [score |-> best, move |-> move, calls |-> made]
    ELSE LET r == Textbook(children[i], depth + 1, alpha, beta, ~maximizingPlayer,
                           depthLimit)
             better == IF maximizingPlayer THEN r.score > best ELSE r.score < best
             best2 == IF better THEN r.score ELSE best
             move2 == IF better THEN children[i].last ELSE move
             alpha2 == IF maximizingPlayer THEN Max(alpha, best2) ELSE alpha
             beta2 == IF maximizingPlayer THEN beta ELSE Min(beta, best2)
             made2 == made \o r.calls
         IN  IF alpha2 >= beta2
             THEN [score |-> best2, move |-> move2, calls |-> made2]
             ELSE TextbookLoop(children, i + 1, depth, alpha2, beta2, maximizingPlayer,
                               depthLimit, best2, move2, made2)

Textbook(state, depth, alpha, beta, maximizingPlayer, depthLimit) ==
    IF isTerminal(state) \/ depth = depthLimit
    THEN [score |-> evaluate(state), move |-> NoMove,
          calls |-> <<Call(state, depth, maximizingPlayer)>>]
    ELSE TextbookLoop(moveGen(state), 1, depth, alpha, beta, maximizingPlayer,
                      depthLimit, IF maximizingPlayer THEN 0 - Inf ELSE Inf, NoMove,
                      <<Call(state, depth, maximizingPlayer)>>)

\* The state holds the result of a root call of minimax on searched.root.
HasSearched == searched.maxDepth >= 0

Mate == 10000 * Unit

\* The score that means the side to move at the root mates.
MateFor(turn) == IF turn = WHITE THEN Mate ELSE 0 - Mate

\* ------------------------------------------------------------ claims

\* C1: minimax(state, 0, -inf, +inf, maximizingPlayer, maxDepth) returns the
\* score of the full minimax of the same tree, searched with no pruning.
C1_PrunedScoreIsFullScore ==
    HasSearched =>
        eval_score = FullMinimax(searched.root, 0, searched.maximizingPlayer,
                                 searched.maxDepth)

\* The calls the call at i of the log made itself (the log is in call
\* order: a call's own calls follow it, one level deeper).
ChildCalls(i) ==
    {j \in DOMAIN call_log :
        /\ j > i
        /\ call_log[j].depth = call_log[i].depth + 1
        /\ \A k \in (i + 1)..(j - 1) : call_log[k].depth > call_log[i].depth}

\* A search of depth 3 in which a break left children of a node unsearched.
C1_Witness ==
    /\ HasSearched
    /\ searched.maxDepth = 3
    /\ \E i \in DOMAIN call_log :
          /\ ChildCalls(i) # {}
          /\ Cardinality(ChildCalls(i)) < Len(moveGen(call_log[i].state))

\* The children of the searched root and their static scores.
RootChildren == moveGen(searched.root)

RootChildScore(i) == evaluate(RootChildren[i])

\* The first child, in moveGen order, whose evaluate() is extreme for the
\* root's player: the maximum if maximizing, else the minimum.
FirstBest(maximizingPlayer) ==
    CHOOSE i \in DOMAIN RootChildren :
        /\ \A j \in DOMAIN RootChildren :
              IF maximizingPlayer THEN RootChildScore(j) <= RootChildScore(i)
              ELSE RootChildScore(j) >= RootChildScore(i)
        /\ \A j \in 1..(i - 1) : RootChildScore(j) # RootChildScore(i)

\* C3: with maxDepth = 1 on a non-terminal state, minimax returns the move
\* of the first child whose evaluate() is the maximum (minimum for the
\* minimizing player) over all children, and that score.
C3_DepthOneFirstBest ==
    (HasSearched /\ searched.maxDepth = 1 /\ ~isTerminal(searched.root)) =>
        /\ eval_score = RootChildScore(FirstBest(searched.maximizingPlayer))
        /\ best_move = RootChildren[FirstBest(searched.maximizingPlayer)].last

\* A depth-1 search where a later child ties with the first best child.
C3_Witness ==
    /\ HasSearched
    /\ searched.maxDepth = 1
    /\ ~isTerminal(searched.root)
    /\ \E j \in DOMAIN RootChildren :
          /\ j > FirstBest(searched.maximizingPlayer)
          /\ RootChildScore(j) = eval_score
    /\ best_move = RootChildren[FirstBest(searched.maximizingPlayer)].last

\* The searched root is not terminal, the flag matches its side to move,
\* the depth limit is at least 1, and a legal move mates at once.
MateInOneSearched ==
    /\ HasSearched
    /\ searched.maxDepth >= 1
    /\ ~isTerminal(searched.root)
    /\ searched.maximizingPlayer = (searched.root.turn = WHITE)
    /\ \E i \in DOMAIN RootChildren : is_checkmate(RootChildren[i])

\* C2 as claimed: with a mate in one available, minimax returns a move that
\* mates on that ply and the score +10000 (White) or -10000 (Black).
C2_ReturnsMatingMove ==
    MateInOneSearched =>
        /\ eval_score = MateFor(searched.root.turn)
        /\ is_checkmate(Push(searched.root, best_move))

\* C2 as amended: the score is the mate score; the move is the first legal
\* move whose subtree is worth the mate score, which mates on that ply
\* when maxDepth is 1 or 2.
C2_ReturnsFirstMateScoreMove ==
    MateInOneSearched =>
        /\ eval_score = MateFor(searched.root.turn)
        /\ \E i \in DOMAIN RootChildren :
              /\ best_move = RootChildren[i].last
              /\ FullMinimax(RootChildren[i], 1, ~searched.maximizingPlayer,
                             searched.maxDepth) = MateFor(searched.root.turn)
              /\ \A j \in 1..(i - 1) :
                    FullMinimax(RootChildren[j], 1, ~searched.maximizingPlayer,
                                searched.maxDepth) # MateFor(searched.root.turn)
        /\ searched.maxDepth <= 2 => is_checkmate(Push(searched.root, best_move))

\* A search with a mate in one at the root that returned a move after
\* which the opponent is not mated, with the mate score.
C2_Witness ==
    /\ MateInOneSearched
    /\ eval_score = MateFor(searched.root.turn)
    /\ ~is_checkmate(Push(searched.root, best_move))

\* The four conditions under which evaluate() returns a terminal score.
DrawCondition(state) ==
    is_stalemate(state) \/ is_insufficient_material(state) \/ can_claim_draw(state)

TerminalScoreCondition(state) == is_checkmate(state) \/ DrawCondition(state)

\* C4: evaluate() is -10000 when White to move is checkmated, +10000 when
\* Black to move is checkmated, 0 on a stalemate, insufficient material or
\* a claimable draw, and the heuristic sum only when none of these holds.
C4_TerminalScores ==
    /\ (is_checkmate(current_state) /\ current_state.turn = WHITE)
          => evaluate(current_state) = 0 - Mate
    /\ (is_checkmate(current_state) /\ current_state.turn = BLACK)
          => evaluate(current_state) = Mate
    /\ DrawCondition(current_state) => evaluate(current_state) = 0
    /\ (HasSearched /\ searched.maxDepth = 0 /\ ~TerminalScoreCondition(current_state))
          => eval_score = Heuristic(current_state)
    /\ (HasSearched /\ searched.maxDepth = 0 /\ TerminalScoreCondition(current_state))
          => eval_score \in {0 - Mate, 0, Mate}

\* A checkmated position evaluated by a search of depth 0.
C4_Witness ==
    /\ HasSearched
    /\ searched.maxDepth = 0
    /\ is_checkmate(current_state)
    /\ current_state.turn = WHITE
    /\ eval_score = 0 - Mate

\* C5 as claimed: isTerminal() holds exactly under the four conditions of
\* evaluate(), and minimax never expands a position with a claimable draw.
C5_TerminalIffFourConditions ==
    /\ isTerminal(current_state) <=> TerminalScoreCondition(current_state)
    /\ HasSearched =>
          \A i \in DOMAIN call_log :
              ChildCalls(i) # {} => ~can_claim_draw(call_log[i].state)

\* C5 as amended: a terminal state satisfies one of the four conditions, a
\* checkmate, stalemate or insufficient material is terminal, and a
\* claimable draw is terminal only by the seventy-five-move rule or a
\* fivefold repetition; minimax expands no terminal state.
C5_TerminalImpliesFourConditions ==
    /\ isTerminal(current_state) => TerminalScoreCondition(current_state)
    /\ (is_checkmate(current_state) \/ is_stalemate(current_state)
        \/ is_insufficient_material(current_state)) => isTerminal(current_state)
    /\ (can_claim_draw(current_state) /\ isTerminal(current_state)) =>
          \/ is_checkmate(current_state)
          \/ is_stalemate(current_state)
          \/ is_insufficient_material(current_state)
          \/ current_state.halfmove_clock >= 150
          \/ Occurrences(current_state) >= 5
    /\ HasSearched =>
          \A i \in DOMAIN call_log :
              isTerminal(call_log[i].state) => ChildCalls(i) = {}

\* A state that is terminal by the seventy-five-move rule alone.
C5_Witness ==
    /\ isTerminal(current_state)
    /\ can_claim_draw(current_state)
    /\ ~is_checkmate(current_state)
    /\ ~is_stalemate(current_state)
    /\ ~is_insufficient_material(current_state)

\* C6 as claimed: moveGen() is empty exactly when isTerminal() is true.
C6_NoSuccessorsIffTerminal ==
    Len(moveGen(current_state)) = 0 <=> isTerminal(current_state)

\* C6 as amended: a state with no successors is terminal (a non-terminal
\* state has at least one), and a terminal state has no successors exactly
\* when it is a checkmate or a stalemate.
C6_NoSuccessorsImpliesTerminal ==
    /\ Len(moveGen(current_state)) = 0 => isTerminal(current_state)
    /\ isTerminal(current_state) =>
          (Len(moveGen(current_state)) = 0
              <=> (is_checkmate(current_state) \/ is_stalemate(current_state)))

\* A stalemate: no successors, terminal.
C6_Witness ==
    /\ Len(moveGen(current_state)) = 0
    /\ is_stalemate(current_state)
    /\ isTerminal(current_state)

\* The textbook search of the searched root.
TextbookSearched ==
    Textbook(searched.root, 0, 0 - Inf, Inf, searched.maximizingPlayer, searched.maxDepth)

\* C9 as amended: updating the bound from the child's score is the same as
\* updating it from the running best: both searches make the same calls
\* in the same order and return the same score and move.
C9_SameAsTextbook ==
    HasSearched =>
        /\ eval_score = TextbookSearched.score
        /\ best_move = TextbookSearched.move
        /\ call_log = TextbookSearched.calls

\* A pruning depth-3 search in which a child that did not improve the
\* running best was followed by another child of the same node.
C9_Witness ==
    /\ HasSearched
    /\ searched.maxDepth = 3
    /\ \E i, j \in DOMAIN call_log :
          /\ i < j
          /\ call_log[i].depth = 1
          /\ call_log[j].depth = 1
          /\ IF searched.maximizingPlayer
             THEN FullMinimax(call_log[i].state, 1, FALSE, 3) >
                  FullMinimax(call_log[j].state, 1, FALSE, 3)
             ELSE FullMinimax(call_log[i].state, 1, TRUE, 3) <
                  FullMinimax(call_log[j].state, 1, TRUE, 3)
    /\ call_log = TextbookSearched.calls

RECURSIVE BoardsFrom(_, _)

\* The boards reached from b by at most n legal moves, none from a
\* terminal board.
BoardsFrom(b, n) ==
    {b} \cup (IF n = 0 \/ isTerminal(b) THEN {}
              ELSE UNION {BoardsFrom(moveGen(b)[i], n - 1) : i \in DOMAIN moveGen(b)})

\* C9 as claimed: there are game trees on which minimax and the textbook
\* search visit different nodes or return a different score or move.
C9_DiffersFromTextbook ==
    \E c \in StartClocks :
        \E b \in BoardsFrom(NewBoard(c), SearchPly) :
            \E mp \in BOOLEAN, md \in 0..MaxSearchDepth :
                minimax(b, 0, 0 - Inf, Inf, mp, md) # Textbook(b, 0, 0 - Inf, Inf, mp, md)

\* C10: in every call of minimax that play_game's call makes, at any
\* depth, maximizingPlayer is true exactly when White is to move in the
\* state passed to the call.
C10_FlagMatchesTurn ==
    HasSearched =>
        \A i \in DOMAIN call_log :
            call_log[i].maximizingPlayer = (call_log[i].state.turn = WHITE)

\* An AI turn whose search reached depth 3 through both kinds of node.
C10_Witness ==
    /\ HasSearched
    /\ pc = "loop"
    /\ \E i, j \in DOMAIN call_log :
          /\ call_log[i].depth = 3
          /\ call_log[i].maximizingPlayer
          /\ call_log[j].depth = 2
          /\ ~call_log[j].maximizingPlayer

\* A step of the loop that is an AI turn: Black to move, and the loop goes on.
AITurn == pc = "loop" /\ pc' = "loop" /\ current_state.turn = BLACK

\* C8: an AI turn replaces current_state by the position after exactly one
\* legal move, the move minimax returned when it is not none and the first
\* legal move otherwise; the new state differs from the old one.
C8_AITurnPlaysOneLegalMove ==
    [][AITurn =>
        /\ ~isTerminal(current_state)
        /\ searched' = Searched(current_state, FALSE, play_maxDepth)
        /\ best_move' = minimax(current_state, 0, 0 - Inf, Inf, FALSE, play_maxDepth).move
        /\ \E i \in DOMAIN legal_moves(current_state) :
              /\ current_state'.last = legal_moves(current_state)[i]
              /\ current_state' = moveGen(current_state)[i]
        /\ best_move' # NoMove => current_state'.last = best_move'
        /\ best_move' = NoMove => current_state'.last = legal_moves(current_state)[1]
        /\ fen(current_state') # fen(current_state)
        /\ current_state'.turn = WHITE]_vars

\* After an AI turn that played a move other than the first legal one.
C8_Witness ==
    /\ HasSearched
    /\ pc = "loop"
    /\ current_state = Push(searched.root, best_move)
    /\ best_move # legal_moves(searched.root)[1]

\* ------------------------------------------- two boards, one position

\* Moves pushed on each of the two boards.
TwinPly == 8

TwinInit ==
    /\ game \in Games
    /\ current_state = NewBoard(0)
    /\ other_state = NewBoard(0)
    /\ pc = "twin"
    /\ eval_score = 0
    /\ best_move = NoMove
    /\ searched = NoSearch
    /\ call_log = <<>>

\* Two games from the initial position, a legal move pushed in each.
TwinPush ==
    /\ pc = "twin"
    /\ ~isTerminal(current_state)
    /\ ~isTerminal(other_state)
    /\ current_state.ply < TwinPly
    /\ \E i \in DOMAIN legal_moves(current_state), j \in DOMAIN legal_moves(other_state) :
          /\ current_state' = Push(current_state, legal_moves(current_state)[i])
          /\ other_state' = Push(other_state, legal_moves(other_state)[j])
    /\ UNCHANGED <<game, pc, eval_score, best_move, searched, call_log>>

TwinNext == TwinPush

TwinSpec == TwinInit /\ [][TwinNext]_vars

\* State.__eq__: the boards' FEN strings are equal.
StateEq(a, b) == fen(a) = fen(b)

\* C7: two State objects that compare equal get the same score from
\* evaluate(), whatever move history their boards carry.
C7_EqualStatesSameScore ==
    StateEq(current_state, other_state) => evaluate(current_state) = evaluate(other_state)

====
